---------------------------- MODULE Spec2Model ----------------------------
(***************************************************************************)
(* XMLizer (src/app.py): text -> sentence-segmented XML.                   *)
(*                                                                         *)
(* A string is a sequence of Unicode code points (naturals); a byte string *)
(* is a sequence of naturals below 256.  String literals of the source are *)
(* written as tuples of code points with the text in a comment.            *)
(***************************************************************************)
EXTENDS Integers, Sequences, FiniteSets, TLC

VARIABLES
    pc,             \* position of the run / of the function call under study
    arg,            \* argument(s) of the function call under study
    ret,            \* its result
    input_mode,     \* st.radio "Input mode"                      (app.py:108)
    text_area,      \* st.text_area content                       (app.py:117)
    uploaded_files, \* st.file_uploader result: [name, bytes]     (app.py:128)
    fidx,           \* position of the for loop over the uploads  (app.py:135)
    outputs,        \* the list `outputs` of (name, xml, count)   (app.py:114)
    notices,        \* st.success messages: (name, encoding)      (app.py:137)
    preview,        \* text shown in the preview expander         (app.py:154)
    download        \* the download button offered                (app.py:159)

vars == <<pc, arg, ret, input_mode, text_area, uploaded_files, fidx,
          outputs, notices, preview, download>>

fnvars == <<arg, ret>>
appvars == <<input_mode, text_area, uploaded_files, fidx, outputs, notices,
             preview, download>>

None == "None"

\* Bounds of the model
MaxRecoveredChildren == 1   \* children of a tree salvaged from a malformed document
MaxSanitizeLen == 2         \* length of the texts given to clean_illegal_xml_chars
MaxEscapeLen == 3           \* length of the texts given to escape_xml_entities
MaxSplitLen == 5            \* length of the texts given to sentence_split
MaxPreviewLen == 7          \* length of the texts given to limited_preview
MaxCount == 2               \* head, mid and tail given to limited_preview
MaxBytesLen == 3            \* length of the byte strings given to detect_and_decode
MaxXmlLen == 4              \* length of the texts given to validate_and_repair_xml
MaxSentLen == 1             \* length of a raw sentence given to wrap_as_xml
MaxSentences == 2           \* sentences given to wrap_as_xml
MaxTextLen == 4             \* length of the texts given to process_single_text
MaxFiles == 2               \* uploaded documents

(***************************************************************************)
(* Generic string helpers (Python built-ins used by the source).           *)
(***************************************************************************)

\* all strings over alphabet A of length at most n
Strings(A, n) == UNION {[1..k -> A] : k \in 0..n}

Max(a, b) == IF a >= b THEN a ELSE b

Min(a, b) == IF a <= b THEN a ELSE b

\* Python slice s[lo:hi] with 0-based, already normalised, bounds
Slice(s, lo, hi) ==
    IF Min(hi, Len(s)) <= lo THEN <<>> ELSE SubSeq(s, lo + 1, Min(hi, Len(s)))

RECURSIVE Join(_, _)
\* sep.join(parts)
Join(parts, sep) ==
    IF parts = <<>> THEN <<>>
    ELSE IF Len(parts) = 1 THEN parts[1]
    ELSE parts[1] \o sep \o Join(Tail(parts), sep)

RECURSIVE Flatten(_)
\* "".join(parts), halving the list
Flatten(parts) ==
    IF parts = <<>> THEN <<>>
    ELSE IF Len(parts) = 1 THEN parts[1]
    ELSE LET h == Len(parts) \div 2
         IN  Flatten(SubSeq(parts, 1, h))
             \o Flatten(SubSeq(parts, h + 1, Len(parts)))

\* s.startswith(p, i-1) for a 1-based position i
StartsAt(s, i, p) ==
    /\ i + Len(p) - 1 <= Len(s)
    /\ \A k \in 1..Len(p) : s[i + k - 1] = p[k]

\* c in s
Contains(s, c) == \E k \in 1..Len(s) : s[k] = c

\* str.isspace() of one character, which is also what \s matches in a
\* str pattern
IsSpace(c) ==
    \/ c \in 9..13
    \/ c \in 28..32
    \/ c \in {133, 160, 5760, 8232, 8233, 8239, 8287, 12288}
    \/ c \in 8192..8202

RECURSIVE LStrip(_)
LStrip(s) ==
    IF s # <<>> /\ IsSpace(Head(s)) THEN LStrip(Tail(s)) ELSE s

RECURSIVE RStrip(_)
RStrip(s) ==
    IF s # <<>> /\ IsSpace(s[Len(s)]) THEN RStrip(SubSeq(s, 1, Len(s) - 1))
    ELSE s

\* str.strip()
Strip(s) == RStrip(LStrip(s))

RECURSIVE Replace(_, _, _)
\* str.replace(old, new) for a one-character old
Replace(s, old, new) ==
    IF s = <<>> THEN <<>>
    ELSE (IF Head(s) = old THEN new ELSE <<Head(s)>>)
         \o Replace(Tail(s), old, new)

RECURSIVE Digits(_)
\* str(i) for a natural i
Digits(i) ==
    IF i < 10 THEN <<48 + i>> ELSE Digits(i \div 10) \o <<48 + (i % 10)>>

(***************************************************************************)
(* clean_illegal_xml_chars                                                 *)
(***************************************************************************)

\* the character class [\x00-\x08\x0B\x0C\x0E-\x1F\uD800-\uDFFF\uFFFE\uFFFF]
illegal_xml_re(c) ==
    \/ c \in 0..8
    \/ c \in {11, 12}
    \/ c \in 14..31
    \/ c \in 55296..57343
    \/ c \in {65534, 65535}

RECURSIVE clean_first_illegal_only(_)
\* the substitution with count=1: only the first match is removed
clean_first_illegal_only(text) ==
    IF text = <<>> THEN <<>>
    ELSE IF illegal_xml_re(Head(text)) THEN Tail(text)
    ELSE <<Head(text)>> \o clean_first_illegal_only(Tail(text))

clean_illegal_xml_chars(text) ==
    SelectSeq(text, LAMBDA c : ~illegal_xml_re(c))

(***************************************************************************)
(* escape_xml_entities                                                     *)
(***************************************************************************)

\* the replacements with the ampersand last
escape_ampersand_last(text) ==
    LET a == Replace(text, 60, <<38, 108, 116, 59>>)
        b == Replace(a, 62, <<38, 103, 116, 59>>)
        c == Replace(b, 34, <<38, 113, 117, 111, 116, 59>>)
        d == Replace(c, 39, <<38, 97, 112, 111, 115, 59>>)
    IN  Replace(d, 38, <<38, 97, 109, 112, 59>>)

escape_xml_entities(text) ==
    LET a == Replace(text, 38, <<38, 97, 109, 112, 59>>)         \* & &amp;
        b == Replace(a, 60, <<38, 108, 116, 59>>)                \* < &lt;
        c == Replace(b, 62, <<38, 103, 116, 59>>)                \* > &gt;
        d == Replace(c, 34, <<38, 113, 117, 111, 116, 59>>)      \* " &quot;
    IN  Replace(d, 39, <<38, 97, 112, 111, 115, 59>>)            \* ' &apos;

(***************************************************************************)
(* sentence_split                                                          *)
(***************************************************************************)

RECURSIVE re_sub_spaces(_)
\* re.sub(r"\s+", " ", s): every maximal whitespace run becomes one space
re_sub_spaces(s) ==
    IF s = <<>> THEN <<>>
    ELSE IF IsSpace(Head(s)) THEN <<32>> \o re_sub_spaces(LStrip(s))
    ELSE <<Head(s)>> \o re_sub_spaces(Tail(s))

\* the character class [.!?]
IsTerminal(c) == c \in {46, 33, 63}

RECURSIVE re_split_from(_, _, _)
\* re.split(r"(?<=[.!?])\s+", s), scanning from position i with the piece
\* cur collected so far
re_split_from(s, i, cur) ==
    IF i > Len(s) THEN <<cur>>
    ELSE IF IsSpace(s[i]) /\ i > 1 /\ IsTerminal(s[i - 1])
         THEN LET rest == LStrip(SubSeq(s, i, Len(s)))
              IN  <<cur>> \o re_split_from(s, Len(s) - Len(rest) + 1, <<>>)
    ELSE re_split_from(s, i + 1, Append(cur, s[i]))

re_split(s) == re_split_from(s, 1, <<>>)

\* the split without the white-space collapse before it
sentence_split_without_collapse(text) ==
    SelectSeq(re_split(Strip(text)), LAMBDA s : Strip(s) # <<>>)

\* the split without the filter after it
sentence_split_keeping_blank(text) ==
    re_split(re_sub_spaces(Strip(text)))

sentence_split(text) ==
    LET collapsed == re_sub_spaces(Strip(text))
        sentences == re_split(collapsed)
    IN  SelectSeq(sentences, LAMBDA s : Strip(s) # <<>>)

(***************************************************************************)
(* detect_and_decode                                                       *)
(***************************************************************************)

\* the codecs bytes.decode knows, among the labels chardet reports
KnownCodecs == {"ascii", "utf-8", "ISO-8859-1"}

\* what a UTF-8 lead byte announces: the length n of the sequence, the
\* range lo..hi allowed for its second byte and the payload bits it carries
Utf8Lead(b) ==
    IF b \in 194..223 THEN [n |-> 2, lo |-> 128, hi |-> 191, bits |-> b - 192]
    ELSE IF b = 224 THEN [n |-> 3, lo |-> 160, hi |-> 191, bits |-> 0]
    ELSE IF b = 237 THEN [n |-> 3, lo |-> 128, hi |-> 159, bits |-> 13]
    ELSE IF b \in 225..239
         THEN [n |-> 3, lo |-> 128, hi |-> 191, bits |-> b - 224]
    ELSE IF b = 240 THEN [n |-> 4, lo |-> 144, hi |-> 191, bits |-> 0]
    ELSE IF b \in 241..243
         THEN [n |-> 4, lo |-> 128, hi |-> 191, bits |-> b - 240]
    ELSE IF b = 244 THEN [n |-> 4, lo |-> 128, hi |-> 143, bits |-> 4]
    ELSE [n |-> 0, lo |-> 0, hi |-> 0, bits |-> 0]

RECURSIVE Utf8Cont(_, _, _, _, _)
\* the continuation bytes of a sequence: k of them are still expected at
\* position i, the next one in lo..hi; acc is the code point so far.
\* Returns the position after the bytes consumed and the character decoded
\* (U+FFFD when the sequence breaks off).
Utf8Cont(b, i, k, lo, acc) ==
    IF k = 0 THEN [next |-> i, char |-> acc]
    ELSE IF i <= Len(b) /\ b[i] >= lo[1] /\ b[i] <= lo[2]
         THEN Utf8Cont(b, i + 1, k - 1, <<128, 191>>, acc * 64 + (b[i] - 128))
    ELSE [next |-> i, char |-> 65533]

\* the character decoded from the sequence that starts at position i, and
\* the position after it; a byte that cannot start a sequence is replaced
\* on its own
UnitAt(b, i) ==
    LET lead == Utf8Lead(b[i])
    IN  IF b[i] < 128 THEN [next |-> i + 1, char |-> b[i]]
        ELSE IF lead.n = 0 THEN [next |-> i + 1, char |-> 65533]
        ELSE Utf8Cont(b, i + 1, lead.n - 1, <<lead.lo, lead.hi>>, lead.bits)

IsContinuation(c) == c \in 128..191

\* whether the decoder starts a sequence at position j: always at a byte
\* that is no continuation byte, and at a continuation byte unless the
\* sequence of the nearest lead byte before it (at most three back)
\* consumes it
IsUnitStart(b, j) ==
    LET p == IF j > 1 /\ ~IsContinuation(b[j - 1]) THEN j - 1
             ELSE IF j > 2 /\ ~IsContinuation(b[j - 2]) THEN j - 2
             ELSE IF j > 3 /\ ~IsContinuation(b[j - 3]) THEN j - 3
             ELSE 0
    IN  ~IsContinuation(b[j]) \/ p = 0 \/ UnitAt(b, p).next <= j

\* bytes.decode("utf-8", errors="replace")
decode_utf8(b) ==
    LET marks == [j \in 1..Len(b) |->
                    IF IsUnitStart(b, j) THEN UnitAt(b, j).char ELSE -1]
    IN  SelectSeq(marks, LAMBDA c : c >= 0)

\* bytes.decode(encoding, errors="replace"): the text, or the exception
\* raised (TypeError for an encoding that is not a str, LookupError for an
\* unknown codec)
decode(b, encoding) ==
    IF encoding = None THEN [raised |-> "TypeError", value |-> <<>>]
    ELSE IF encoding \notin KnownCodecs
         THEN [raised |-> "LookupError", value |-> <<>>]
    ELSE IF encoding = "utf-8"
         THEN [raised |-> None, value |-> decode_utf8(b)]
    ELSE IF encoding = "ascii"
         THEN [raised |-> None,
               value |-> [k \in 1..Len(b) |->
                            IF b[k] < 128 THEN b[k] ELSE 65533]]
    ELSE [raised |-> None, value |-> b]

\* the decoding without the except branch
detect_and_decode_without_fallback(file_bytes, result) ==
    LET encoding == IF "encoding" \in DOMAIN result THEN result.encoding
                    ELSE "utf-8"
        try == decode(file_bytes, encoding)
    IN  [raised |-> try.raised, value |-> <<try.value, encoding>>]

\* detect_and_decode(file_bytes), given the dict result that
\* chardet.detect(file_bytes) returned
detect_and_decode(file_bytes, result) ==
    LET encoding == IF "encoding" \in DOMAIN result THEN result.encoding
                    ELSE "utf-8"
        try == decode(file_bytes, encoding)
        fallback == decode(file_bytes, "utf-8")
    IN  IF try.raised = None
        THEN [raised |-> None, value |-> <<try.value, encoding>>]
        ELSE [raised |-> fallback.raised,
              value |-> <<fallback.value, "utf-8">>]

(***************************************************************************)
(* limited_preview                                                         *)
(***************************************************************************)

\* the line boundaries of str.splitlines()
IsLineBreak(c) == c \in {10, 11, 12, 13, 28, 29, 30, 133, 8232, 8233}

\* str.splitlines(): the text is cut after every line boundary (\r\n is
\* one boundary), the boundaries are dropped, and what follows the last
\* boundary is a line if it is not empty
splitlines(s) ==
    LET ends == SelectSeq([i \in 1..Len(s) |-> i],
                          LAMBDA i : /\ IsLineBreak(s[i])
                                     /\ ~(s[i] = 13 /\ i < Len(s)
                                                    /\ s[i + 1] = 10))
        from(k) == IF k = 1 THEN 1 ELSE ends[k - 1] + 1
        line(k) == LET e == ends[k]
                       crlf == s[e] = 10 /\ e > from(k) /\ s[e - 1] = 13
                   IN  SubSeq(s, from(k), IF crlf THEN e - 2 ELSE e - 1)
        rest == SubSeq(s, from(Len(ends) + 1), Len(s))
    IN  [k \in 1..Len(ends) |-> line(k)]
        \o (IF rest = <<>> THEN <<>> ELSE <<rest>>)

\* the slice lines[-tail:] for tail >= 0: -0 is 0, the whole list
LastLines(lines, tail) ==
    IF tail = 0 THEN lines
    ELSE Slice(lines, Max(Len(lines) - tail, 0), Len(lines))

limited_preview(xml_text, head, mid, tail) ==
    LET lines == splitlines(xml_text)
        total == Len(lines)
        middle_start == Max((total \div 2) - (mid \div 2), head)
        middle_end == middle_start + mid
        preview_lines == Slice(lines, 0, head)
                         \o << <<46, 46, 46>> >>                     \* ...
                         \o Slice(lines, middle_start, middle_end)
                         \o << <<46, 46, 46>> >>
                         \o LastLines(lines, tail)
    IN  IF total <= head + mid + tail THEN xml_text
        ELSE Join(preview_lines, <<10>>)

(***************************************************************************)
(* os.path.splitext and the output name                                    *)
(***************************************************************************)

RECURSIVE RFind(_, _)
\* str.rfind(c): the 0-based index of the last c, or -1
RFind(s, c) ==
    IF s = <<>> THEN -1
    ELSE IF s[Len(s)] = c THEN Len(s) - 1
    ELSE RFind(SubSeq(s, 1, Len(s) - 1), c)

\* os.path.splitext(p) (posixpath: sep "/", extsep "."): a leading run of
\* dots of the file name is not an extension
splitext(p) ==
    LET sepIndex == RFind(p, 47)
        dotIndex == RFind(p, 46)
        filenameIndex == sepIndex + 1
    IN  IF /\ dotIndex > sepIndex
           /\ \E k \in filenameIndex..(dotIndex - 1) : p[k + 1] # 46
        THEN <<Slice(p, 0, dotIndex), Slice(p, dotIndex, Len(p))>>
        ELSE <<p, <<>> >>

\* the name with ".xml" appended to the whole of it
xml_name_appended(name) == name \o <<46, 120, 109, 108>>

\* os.path.splitext(f.name)[0] + ".xml"
xml_name(name) == splitext(name)[1] \o <<46, 120, 109, 108>>

(***************************************************************************)
(* wrap_as_xml                                                             *)
(***************************************************************************)

\* the block numbered from 0
block_from_zero(i, sent) ==
    <<60, 115, 32, 110, 61, 34>> \o Digits(i - 1) \o <<34, 62, 10>>
    \o sent \o <<10, 60, 47, 115, 62>>

\* the f-string <s n="{i}">\n{sent}\n</s>
block(i, sent) ==
    <<60, 115, 32, 110, 61, 34>> \o Digits(i) \o <<34, 62, 10>>
    \o sent \o <<10, 60, 47, 115, 62>>

wrap_as_xml(sentences) ==
    LET blocks == [i \in 1..Len(sentences) |-> block(i, sentences[i])]
        body == Join(blocks, <<10>>)
    IN  \* <?xml version="1.0" encoding="UTF-8"?>\n<document>\n
        <<60, 63, 120, 109, 108, 32, 118, 101, 114, 115, 105, 111, 110, 61,
          34, 49, 46, 48, 34, 32, 101, 110, 99, 111, 100, 105, 110, 103, 61,
          34, 85, 84, 70, 45, 56, 34, 63, 62, 10,
          60, 100, 111, 99, 117, 109, 101, 110, 116, 62, 10>>
        \o body
        \* \n</document>\n
        \o <<10, 60, 47, 100, 111, 99, 117, 109, 101, 110, 116, 62, 10>>

(***************************************************************************)
(* validate_and_repair_xml: str.encode, lxml.etree.fromstring with         *)
(* XMLParser(recover=True), lxml.etree.tostring, bytes.decode.             *)
(*                                                                         *)
(* An element is a record [tag, attrib, text, children, tail] as in lxml;  *)
(* attrib is the sequence of <<name, value>> pairs in document order, and  *)
(* an absent text or tail is the empty string.                             *)
(***************************************************************************)

\* str.encode("utf-8") of one character; a surrogate cannot be encoded
encode_char(c) ==
    IF c < 128 THEN <<c>>
    ELSE IF c < 2048 THEN <<192 + (c \div 64), 128 + (c % 64)>>
    ELSE IF c < 65536
         THEN <<224 + (c \div 4096), 128 + ((c \div 64) % 64), 128 + (c % 64)>>
    ELSE <<240 + (c \div 262144), 128 + ((c \div 4096) % 64),
           128 + ((c \div 64) % 64), 128 + (c % 64)>>

\* str.encode("utf-8")
encode_utf8(s) ==
    IF \E k \in 1..Len(s) : s[k] \in 55296..57343
    THEN [raised |-> "UnicodeEncodeError", value |-> <<>>]
    ELSE [raised |-> None,
          value |-> Flatten([k \in 1..Len(s) |-> encode_char(s[k])])]

\* the production Char of XML 1.0
IsXmlChar(c) ==
    \/ c \in {9, 10, 13}
    \/ c \in 32..55295
    \/ c \in 57344..65533
    \/ c \in 65536..1114111

\* the production S of XML 1.0
IsXmlSpace(c) == c \in {32, 9, 13, 10}

\* the production NameStartChar of XML 1.0
IsNameStart(c) ==
    \/ c \in 65..90
    \/ c \in 97..122
    \/ c \in {58, 95}
    \/ c \in 192..214
    \/ c \in 216..246
    \/ c \in 248..767
    \/ c \in 880..893
    \/ c \in 895..8191
    \/ c \in 8204..8205
    \/ c \in 8304..8591
    \/ c \in 11264..12271
    \/ c \in 12289..55295
    \/ c \in 63744..64975
    \/ c \in 65008..65533
    \/ c \in 65536..983039

\* the production NameChar of XML 1.0
IsNameChar(c) ==
    \/ IsNameStart(c)
    \/ c \in 48..57
    \/ c \in {45, 46, 183}
    \/ c \in 768..879
    \/ c \in 8255..8256

RECURSIVE NameEnd(_, _)
\* the position after the name characters that start at i
NameEnd(s, i) ==
    IF i <= Len(s) /\ IsNameChar(s[i]) THEN NameEnd(s, i + 1) ELSE i

RECURSIVE SkipS(_, _)
\* the position after the white space that starts at i
SkipS(s, i) ==
    IF i <= Len(s) /\ IsXmlSpace(s[i]) THEN SkipS(s, i + 1) ELSE i

RECURSIVE ReferenceEnd(_, _)
\* the position of the ";" that ends the reference whose body starts at
\* i, or 0 when the name or number is not followed by one
ReferenceEnd(s, i) ==
    IF i > Len(s) THEN 0
    ELSE IF s[i] = 59 THEN i
    ELSE IF IsNameChar(s[i]) \/ s[i] = 35 THEN ReferenceEnd(s, i + 1)
    ELSE 0

HexDigit(c) ==
    IF c \in 48..57 THEN c - 48
    ELSE IF c \in 97..102 THEN c - 87
    ELSE IF c \in 65..70 THEN c - 55
    ELSE -1

RECURSIVE NumValue(_, _)
\* the number written by the digits d in the given base, or -1
NumValue(d, base) ==
    IF d = <<>> THEN 0
    ELSE LET hi == NumValue(SubSeq(d, 1, Len(d) - 1), base)
             lo == HexDigit(d[Len(d)])
         IN  IF hi < 0 \/ lo < 0 \/ lo >= base \/ hi > 1114111 THEN -1
             ELSE hi * base + lo

\* the character a reference body stands for, or -1: one of the five
\* predefined entities or a character reference
ReferenceChar(body) ==
    IF body = <<97, 109, 112>> THEN 38                              \* amp
    ELSE IF body = <<108, 116>> THEN 60                             \* lt
    ELSE IF body = <<103, 116>> THEN 62                             \* gt
    ELSE IF body = <<113, 117, 111, 116>> THEN 34                   \* quot
    ELSE IF body = <<97, 112, 111, 115>> THEN 39                    \* apos
    ELSE IF Len(body) >= 3 /\ body[1] = 35 /\ body[2] = 120         \* #x
    THEN NumValue(SubSeq(body, 3, Len(body)), 16)
    ELSE IF Len(body) >= 2 /\ body[1] = 35                          \* #
    THEN NumValue(Tail(body), 10)
    ELSE -1

ReferenceOf(semi, char) ==
    [ok |-> char >= 0 /\ IsXmlChar(char), next |-> semi + 1, char |-> char]

ReferenceUpTo(s, i, semi) ==
    ReferenceOf(semi, IF semi = 0 THEN -1
                      ELSE ReferenceChar(SubSeq(s, i + 1, semi - 1)))

\* a Reference at position i (s[i] is "&")
ParseReference(s, i) == ReferenceUpTo(s, i, ReferenceEnd(s, i + 1))

Parsed(ok, next, value) == [ok |-> ok, next |-> next, value |-> value]

\* the value c followed by the rest t of a text
Cons(c, t) == Parsed(t.ok, t.next, <<c>> \o t.value)

RECURSIVE ParseText(_, _)

TextAfterReference(s, i, r) ==
    IF r.ok THEN Cons(r.char, ParseText(s, r.next))
    ELSE Parsed(FALSE, i, <<>>)

\* character data and references from position i up to the next "<" or
\* the end; line ends are normalised to \n
ParseText(s, i) ==
    IF i > Len(s) \/ s[i] = 60 THEN Parsed(TRUE, i, <<>>)
    ELSE IF s[i] = 38 THEN TextAfterReference(s, i, ParseReference(s, i))
    ELSE IF ~IsXmlChar(s[i]) \/ StartsAt(s, i, <<93, 93, 62>>)     \* ]]>
    THEN Parsed(FALSE, i, <<>>)
    ELSE Cons(IF s[i] = 13 THEN 10 ELSE s[i],
              ParseText(s, IF StartsAt(s, i, <<13, 10>>) THEN i + 2
                           ELSE i + 1))

RECURSIVE ParseAttValue(_, _, _)

AttValueAfterReference(s, i, q, r) ==
    IF r.ok THEN Cons(r.char, ParseAttValue(s, r.next, q))
    ELSE Parsed(FALSE, i, <<>>)

\* an attribute value from position i up to the closing quote q; white
\* space is normalised to spaces
ParseAttValue(s, i, q) ==
    IF i > Len(s) \/ s[i] = 60 \/ ~IsXmlChar(s[i])
    THEN Parsed(FALSE, i, <<>>)
    ELSE IF s[i] = q THEN Parsed(TRUE, i + 1, <<>>)
    ELSE IF s[i] = 38
    THEN AttValueAfterReference(s, i, q, ParseReference(s, i))
    ELSE Cons(IF IsXmlSpace(s[i]) THEN 32 ELSE s[i],
              ParseAttValue(s, IF StartsAt(s, i, <<13, 10>>) THEN i + 2
                               ELSE i + 1, q))

RECURSIVE ParseAttrs(_, _, _)

AttrsResult(ok, next, attrs) == [ok |-> ok, next |-> next, attrs |-> attrs]

AttrAfterValue(s, j, name, v, acc) ==
    IF v.ok /\ \A k \in 1..Len(acc) : acc[k][1] # name
    THEN ParseAttrs(s, v.next, Append(acc, <<name, v.value>>))
    ELSE AttrsResult(FALSE, j, acc)

AttrAtQuote(s, j, name, q, acc) ==
    IF q <= Len(s) /\ s[q] \in {34, 39}
    THEN AttrAfterValue(s, j, name, ParseAttValue(s, q + 1, s[q]), acc)
    ELSE AttrsResult(FALSE, j, acc)

AttrAtEq(s, j, name, eq, acc) ==
    IF eq <= Len(s) /\ s[eq] = 61
    THEN AttrAtQuote(s, j, name, SkipS(s, eq + 1), acc)
    ELSE AttrsResult(FALSE, j, acc)

AttrAfterName(s, j, e, acc) ==
    AttrAtEq(s, j, SubSeq(s, j, e - 1), SkipS(s, e), acc)

AttrsAt(s, i, j, acc) ==
    IF j <= Len(s) /\ IsNameStart(s[j])
    THEN IF j > i THEN AttrAfterName(s, j, NameEnd(s, j), acc)
         ELSE AttrsResult(FALSE, j, acc)
    ELSE AttrsResult(TRUE, j, acc)

\* the attributes (S Name Eq AttValue)* from position i, after those in
\* acc; next is the position after the optional white space that follows
ParseAttrs(s, i, acc) == AttrsAt(s, i, SkipS(s, i), acc)

\* no element: what lxml hands out as None
NoTree ==
    [tag |-> <<>>, attrib |-> <<>>, text |-> <<>>, children |-> <<>>,
     tail |-> <<>>]

Element(tag, attrib, text, children, tail) ==
    [tag |-> tag, attrib |-> attrib, text |-> text, children |-> children,
     tail |-> tail]

ElementResult(ok, next, tree) == [ok |-> ok, next |-> next, tree |-> tree]

ChildrenResult(ok, next, children) ==
    [ok |-> ok, next |-> next, children |-> children]

RECURSIVE ParseElement(_, _)
RECURSIVE ParseChildren(_, _, _)

ChildAfterTail(s, i, e, t, acc) ==
    IF t.ok
    THEN ParseChildren(s, t.next, Append(acc, [e.tree EXCEPT !.tail = t.value]))
    ELSE ChildrenResult(FALSE, i, acc)

ChildAfterElement(s, i, e, acc) ==
    IF e.ok THEN ChildAfterTail(s, i, e, ParseText(s, e.next), acc)
    ELSE ChildrenResult(FALSE, i, acc)

\* the child elements from position i, each followed by its tail, up to
\* the end tag of the parent
ParseChildren(s, i, acc) ==
    IF i > Len(s) THEN ChildrenResult(FALSE, i, acc)
    ELSE IF StartsAt(s, i, <<60, 47>>)                              \* </
    THEN ChildrenResult(TRUE, i, acc)
    ELSE ChildAfterElement(s, i, ParseElement(s, i), acc)

\* the end tag </tag S? > at position i, g being the position after the
\* name and the white space
ElementAtEndTag(s, i, tag, attrs, text, c, g) ==
    IF /\ StartsAt(s, c.next, <<60, 47>> \o tag)
       /\ g <= Len(s) /\ s[g] = 62
    THEN ElementResult(TRUE, g + 1, Element(tag, attrs, text, c.children, <<>>))
    ELSE ElementResult(FALSE, i, NoTree)

ElementAfterChildren(s, i, tag, attrs, text, c) ==
    IF c.ok
    THEN ElementAtEndTag(s, i, tag, attrs, text, c,
                         SkipS(s, c.next + 2 + Len(tag)))
    ELSE ElementResult(FALSE, i, NoTree)

ElementAfterText(s, i, tag, attrs, t) ==
    IF t.ok
    THEN ElementAfterChildren(s, i, tag, attrs, t.value,
                              ParseChildren(s, t.next, <<>>))
    ELSE ElementResult(FALSE, i, NoTree)

ElementAfterAttrs(s, i, tag, a) ==
    IF ~a.ok THEN ElementResult(FALSE, i, NoTree)
    ELSE IF StartsAt(s, a.next, <<47, 62>>)                         \* />
    THEN ElementResult(TRUE, a.next + 2,
                       Element(tag, a.attrs, <<>>, <<>>, <<>>))
    ELSE IF StartsAt(s, a.next, <<62>>)                             \* >
    THEN ElementAfterText(s, i, tag, a.attrs, ParseText(s, a.next + 1))
    ELSE ElementResult(FALSE, i, NoTree)

ElementAfterName(s, i, e) ==
    ElementAfterAttrs(s, i, SubSeq(s, i + 1, e - 1), ParseAttrs(s, e, <<>>))

\* an element at position i: an empty-element tag, or a start tag, the
\* content and the matching end tag
ParseElement(s, i) ==
    IF i < Len(s) /\ s[i] = 60 /\ IsNameStart(s[i + 1])
    THEN ElementAfterName(s, i, NameEnd(s, i + 1))
    ELSE ElementResult(FALSE, i, NoTree)

XmlDeclAfterAttrs(s, a) ==
    [ok |-> /\ a.ok
            /\ Len(a.attrs) \in 1..2
            \* version
            /\ a.attrs[1][1] = <<118, 101, 114, 115, 105, 111, 110>>
            /\ StartsAt(s, a.next, <<63, 62>>),                     \* ?>
     next |-> a.next + 2]

\* the XML declaration at the start of s, if any; next is the position
\* after it
ParseXmlDecl(s) ==
    IF StartsAt(s, 1, <<60, 63, 120, 109, 108>>)                 \* <?xml
    THEN XmlDeclAfterAttrs(s, ParseAttrs(s, 6, <<>>))
    ELSE [ok |-> TRUE, next |-> 1]

\* whether a start tag (or empty-element tag) stands at position j
StartTagAfterAttrs(s, a) ==
    a.ok /\ (StartsAt(s, a.next, <<62>>) \/ StartsAt(s, a.next, <<47, 62>>))

StartTagAt(s, j) ==
    /\ j < Len(s) /\ s[j] = 60 /\ IsNameStart(s[j + 1])
    /\ StartTagAfterAttrs(s, ParseAttrs(s, NameEnd(s, j + 1), <<>>))

DocumentAfterRoot(s, d, j, e, rooted) ==
    [ok |-> d.ok /\ e.ok /\ SkipS(s, e.next) = Len(s) + 1,
     rooted |-> rooted,
     tag |-> IF rooted THEN SubSeq(s, j + 1, NameEnd(s, j + 1) - 1) ELSE <<>>,
     tree |-> e.tree]

DocumentAt(s, d, j) ==
    DocumentAfterRoot(s, d, j, ParseElement(s, j), d.ok /\ StartTagAt(s, j))

DocumentAfterDecl(s, d) == DocumentAt(s, d, SkipS(s, d.next))

\* a conforming parse of the document s: prolog, root element, white space.
\* rooted tells whether the start tag of a root element was read.
ParseDocument(s) == DocumentAfterDecl(s, ParseXmlDecl(s))

\* Trees the recovering parser may hand out for a malformed document whose
\* root element has one of the given tags.  What libxml2 salvages is not
\* determined by src/app.py; every tree of this family is taken as
\* possible.  Its texts hold characters that need escaping (& < > " CR LF).
RecoveredTexts ==
    {<<>>, <<97>>, <<38, 60, 62>>, <<34, 13, 10>>}

RecoveredAttribs ==
    {<<>>, << <<(<<110>>), (<<34, 38, 60, 10, 9>>)>> >>}

RecoveredChildren ==
    UNION {[1..k -> {Element(<<115>>, a, t, <<>>, tl) :
                        a \in RecoveredAttribs, t \in RecoveredTexts,
                        tl \in {<<>>, <<10>>}}]
             : k \in 0..MaxRecoveredChildren}

RecoveredTrees(tags) ==
    {Element(tag, <<>>, t, c, <<>>) :
        tag \in tags, t \in RecoveredTexts, c \in RecoveredChildren}

RecoveredFrom(s, p) ==
    IF p.ok THEN {p.tree}
    ELSE IF p.rooted THEN RecoveredTrees({p.tag})
    ELSE IF ~Contains(s, 60) THEN {NoTree}
    ELSE {NoTree} \cup RecoveredTrees({<<100, 111, 99>>, <<115>>})

ParseRecovering(s) == RecoveredFrom(s, ParseDocument(s))

\* etree.fromstring(data, XMLParser(recover=True)): the set of trees the
\* call may return.  A well-formed document has its tree; a malformed one
\* whose root start tag was read has some tree with that root; a document
\* without any "<" has no element at all (None).
fromstring(data) == ParseRecovering(decode_utf8(data))

RECURSIVE EscapeWith(_, _)
\* replace every character c of s by map[c] where map defines one
EscapeWith(s, map) ==
    IF s = <<>> THEN <<>>
    ELSE (IF Head(s) \in DOMAIN map THEN map[Head(s)] ELSE <<Head(s)>>)
         \o EscapeWith(Tail(s), map)

\* character data written with the ampersand as it is
TextEscapesWithoutAmp ==
    (60 :> <<38, 108, 116, 59>>) @@ (62 :> <<38, 103, 116, 59>>)
    @@ (13 :> <<38, 35, 49, 51, 59>>)

\* how the serialiser writes character data: & < > and CR are escaped,
\* quotes are not
TextEscapes ==
    (38 :> <<38, 97, 109, 112, 59>>) @@ (60 :> <<38, 108, 116, 59>>)
    @@ (62 :> <<38, 103, 116, 59>>) @@ (13 :> <<38, 35, 49, 51, 59>>)

\* how the serialiser writes attribute values
AttrEscapes ==
    TextEscapes @@ (34 :> <<38, 113, 117, 111, 116, 59>>)
    @@ (10 :> <<38, 35, 49, 48, 59>>) @@ (9 :> <<38, 35, 57, 59>>)

RECURSIVE SerializeElement(_)
\* the element e, its content and its tail
SerializeElement(e) ==
    LET attrs == Flatten([k \in 1..Len(e.attrib) |->
                            <<32>> \o e.attrib[k][1] \o <<61, 34>>
                            \o EscapeWith(e.attrib[k][2], AttrEscapes)
                            \o <<34>>])
        content == EscapeWith(e.text, TextEscapes)
                   \o Flatten([k \in 1..Len(e.children) |->
                                 SerializeElement(e.children[k])])
    IN  (IF content = <<>>
         THEN <<60>> \o e.tag \o attrs \o <<47, 62>>
         ELSE <<60>> \o e.tag \o attrs \o <<62>> \o content
              \o <<60, 47>> \o e.tag \o <<62>>)
        \o EscapeWith(e.tail, TextEscapes)

\* etree.tostring(tree, encoding="utf-8", xml_declaration=True): the
\* bytes, or the TypeError raised for None
tostring(tree) ==
    IF tree = NoTree THEN [raised |-> "TypeError", value |-> <<>>]
    ELSE encode_utf8(
           \* <?xml version='1.0' encoding='utf-8'?>\n
           <<60, 63, 120, 109, 108, 32, 118, 101, 114, 115, 105, 111, 110,
             61, 39, 49, 46, 48, 39, 32, 101, 110, 99, 111, 100, 105, 110,
             103, 61, 39, 117, 116, 102, 45, 56, 39, 63, 62, 10>>
           \o SerializeElement(tree))

\* the str(...) of the serialised bytes, or the exception passed on
Decoded(out) == [raised |-> out.raised, value |-> decode_utf8(out.value)]

Repaired(data) ==
    IF data.raised # None THEN {[raised |-> data.raised, value |-> <<>>]}
    ELSE {Decoded(tostring(tree)) : tree \in fromstring(data.value)}

\* validate_and_repair_xml(xml_text): the set of outcomes of the call, each
\* the string returned or the exception that leaves the function
validate_and_repair_xml(xml_text) == Repaired(encode_utf8(xml_text))

(***************************************************************************)
(* process_single_text                                                     *)
(***************************************************************************)

\* process_single_text(text): the outcomes of the call, each the pair
\* (xml, sentence count) returned or the exception raised
process_single_text(text) ==
    LET cleaned == clean_illegal_xml_chars(text)
        sentences == sentence_split(cleaned)
        escaped == [k \in 1..Len(sentences) |->
                      escape_xml_entities(sentences[k])]
        xml_raw == wrap_as_xml(escaped)
    IN  {[raised |-> r.raised, value |-> <<r.value, Len(sentences)>>]
           : r \in validate_and_repair_xml(xml_raw)}

(***************************************************************************)
(* Calls of the single functions.  arg is the argument, ret the result;    *)
(* the variables of the application stay idle.                             *)
(***************************************************************************)

AppIdle ==
    /\ input_mode = None
    /\ text_area = <<>>
    /\ uploaded_files = <<>>
    /\ fidx = 1
    /\ outputs = <<>>
    /\ notices = <<>>
    /\ preview = <<>>
    /\ download = [mime |-> None]

\* ---- clean_illegal_xml_chars, applied once and then to its own output

\* code points on both sides of every range of the character class
SanitizeAlphabet ==
    {0, 8, 9, 11, 13, 14, 31, 32, 55295, 55296, 57343, 57344, 65533, 65534,
     65535}

InitSanitize ==
    /\ pc = "call"
    /\ arg \in Strings(SanitizeAlphabet, MaxSanitizeLen)
    /\ ret = <<>>
    /\ AppIdle

Sanitize ==
    /\ pc = "call"
    /\ ret' = <<clean_illegal_xml_chars(arg)>>
    /\ pc' = "again"
    /\ UNCHANGED <<arg, appvars>>

SanitizeAgain ==
    /\ pc = "again"
    /\ ret' = Append(ret, clean_illegal_xml_chars(ret[1]))
    /\ pc' = "done"
    /\ UNCHANGED <<arg, appvars>>

NextSanitize == Sanitize \/ SanitizeAgain

SpecSanitize == InitSanitize /\ [][NextSanitize]_vars

\* ---- escape_xml_entities

EscapeAlphabet == {38, 60, 62, 34, 39, 97, 59}            \* & < > " ' a ;

\* a & < b
EscapeExample == <<97, 32, 38, 32, 60, 32, 98>>

InitEscape ==
    /\ pc = "call"
    /\ arg \in Strings(EscapeAlphabet, MaxEscapeLen) \cup {EscapeExample}
    /\ ret = <<>>
    /\ AppIdle

Escape ==
    /\ pc = "call"
    /\ ret' = escape_xml_entities(arg)
    /\ pc' = "done"
    /\ UNCHANGED <<arg, appvars>>

NextEscape == Escape

SpecEscape == InitEscape /\ [][NextEscape]_vars

\* ---- sentence_split

SplitAlphabet == {97, 32, 10, 46, 63}                     \* a SP LF . ?

\* Hello world. How are you? Fine!
SplitExample ==
    <<72, 101, 108, 108, 111, 32, 119, 111, 114, 108, 100, 46, 32, 72, 111,
      119, 32, 97, 114, 101, 32, 121, 111, 117, 63, 32, 70, 105, 110, 101,
      33>>

InitSplit ==
    /\ pc = "call"
    /\ arg \in Strings(SplitAlphabet, MaxSplitLen) \cup {SplitExample}
    /\ ret = <<>>
    /\ AppIdle

Split ==
    /\ pc = "call"
    /\ ret' = sentence_split(arg)
    /\ pc' = "done"
    /\ UNCHANGED <<arg, appvars>>

NextSplit == Split

SpecSplit == InitSplit /\ [][NextSplit]_vars

\* ---- limited_preview

\* twenty one-character lines
TwentyLines == [i \in 1..39 |-> IF i % 2 = 1 THEN 120 ELSE 10]

InitPreview ==
    /\ pc = "call"
    /\ \/ arg \in [xml_text : Strings({120, 10}, MaxPreviewLen),
                   head : 0..MaxCount, mid : 0..MaxCount, tail : 0..MaxCount]
       \/ arg = [xml_text |-> TwentyLines, head |-> 5, mid |-> 5, tail |-> 5]
    /\ ret = <<>>
    /\ AppIdle

Preview ==
    /\ pc = "call"
    /\ ret' = limited_preview(arg.xml_text, arg.head, arg.mid, arg.tail)
    /\ pc' = "done"
    /\ UNCHANGED <<arg, appvars>>

NextPreview == Preview

SpecPreview == InitPreview /\ [][NextPreview]_vars

\* ---- detect_and_decode

\* what chardet.detect may return: a dict whose "encoding" is a codec
\* Python knows, a label Python does not know, or None; or, for the
\* default of result.get, a dict without that key
DetectResults ==
    {[encoding |-> e] :
        e \in {"ascii", "utf-8", "ISO-8859-1", "EUC-TW", None}}
    \cup {<<>>}

ByteAlphabet == {65, 195, 169, 233}     \* A, the UTF-8 bytes of e-acute, its Latin-1 byte

InitDecode ==
    /\ pc = "call"
    /\ arg \in [file_bytes : Strings(ByteAlphabet, MaxBytesLen),
                result : DetectResults]
    /\ ret = <<>>
    /\ AppIdle

DetectAndDecode ==
    /\ pc = "call"
    /\ ret' = detect_and_decode(arg.file_bytes, arg.result)
    /\ pc' = "done"
    /\ UNCHANGED <<arg, appvars>>

NextDecode == DetectAndDecode

SpecDecode == InitDecode /\ [][NextDecode]_vars

\* ---- validate_and_repair_xml on an arbitrary text

InitValidate ==
    /\ pc = "call"
    /\ arg \in Strings({60, 97, 47, 62}, MaxXmlLen)       \* < a / >
    /\ ret = <<>>
    /\ AppIdle

Validate ==
    /\ pc = "call"
    /\ \E r \in validate_and_repair_xml(arg) : ret' = r
    /\ pc' = "done"
    /\ UNCHANGED <<arg, appvars>>

NextValidate == Validate

SpecValidate == InitValidate /\ [][NextValidate]_vars

\* ---- wrap_as_xml, then validate_and_repair_xml, then the same again

RawAlphabet == {97, 38, 60}                               \* a & <

\* non-empty sentences as the segmenter yields them, and their escaped
\* forms as process_single_text passes them on
RawSentences == Strings(RawAlphabet, MaxSentLen) \ {<<>>}

RepairSentences ==
    RawSentences \cup {escape_xml_entities(x) : x \in RawSentences}

InitRepair ==
    /\ pc = "wrap"
    /\ arg \in UNION {[1..n -> RepairSentences] : n \in 1..MaxSentences}
    /\ ret = <<>>
    /\ AppIdle

Wrap ==
    /\ pc = "wrap"
    /\ ret' = <<[raised |-> None, value |-> wrap_as_xml(arg)]>>
    /\ pc' = "repair"
    /\ UNCHANGED <<arg, appvars>>

Repair ==
    /\ pc = "repair"
    /\ \E r \in validate_and_repair_xml(ret[1].value) : ret' = Append(ret, r)
    /\ pc' = IF ret'[2].raised = None THEN "again" ELSE "done"
    /\ UNCHANGED <<arg, appvars>>

RepairAgain ==
    /\ pc = "again"
    /\ \E r \in validate_and_repair_xml(ret[2].value) : ret' = Append(ret, r)
    /\ pc' = "done"
    /\ UNCHANGED <<arg, appvars>>

NextRepair == Wrap \/ Repair \/ RepairAgain

SpecRepair == InitRepair /\ [][NextRepair]_vars

\* ---- process_single_text

ProcessAlphabet == {97, 32, 46, 38, 34, 1}                \* a SP . & " ^A

InitProcess ==
    /\ pc = "call"
    /\ arg \in Strings(ProcessAlphabet, MaxTextLen)
    /\ ret = <<>>
    /\ AppIdle

Process ==
    /\ pc = "call"
    /\ \E r \in process_single_text(arg) : ret' = r
    /\ pc' = "done"
    /\ UNCHANGED <<arg, appvars>>

NextProcess == Process

SpecProcess == InitProcess /\ [][NextProcess]_vars

(***************************************************************************)
(* One run of the script: the input section (direct text or the loop over  *)
(* the uploaded files) and the output section.                             *)
(***************************************************************************)

\* report.txt, a.md, a.txt, notes: names as the uploader hands them out
\* (file names without directories)
UploadNames ==
    {<<114, 101, 112, 111, 114, 116, 46, 116, 120, 116>>,
     <<97, 46, 109, 100>>,
     <<97, 46, 116, 120, 116>>,
     <<110, 111, 116, 101, 115>>}

\* the bytes of: (nothing), "Hi. A&B" and, in Latin-1, "caf\xe9."
UploadContents ==
    {<<>>, <<72, 105, 46, 32, 65, 38, 66>>, <<99, 97, 102, 233, 46>>}

\* the texts typed into the text area: (nothing), blanks, "a. b"
TextAreaContents == {<<>>, <<32, 10>>, <<97, 46, 32, 98>>}

\* what chardet.detect returns in the runs of the script
AppDetectResults ==
    {[encoding |-> "ISO-8859-1"], [encoding |-> "ascii"], [encoding |-> None]}

\* input_text.xml
InputTextName ==
    <<105, 110, 112, 117, 116, 95, 116, 101, 120, 116, 46, 120, 109, 108>>

Init ==
    /\ pc = "input"
    /\ arg = <<>>
    /\ ret = <<>>
    /\ input_mode \in {"Direct text input", "Upload file(s)"}
    /\ IF input_mode = "Direct text input"
       THEN /\ text_area \in TextAreaContents
            /\ uploaded_files = <<>>
       ELSE /\ text_area = <<>>
            /\ uploaded_files \in
                 UNION {[1..n -> [name : UploadNames, bytes : UploadContents]]
                          : n \in 0..MaxFiles}
    /\ fidx = 1
    /\ outputs = <<>>
    /\ notices = <<>>
    /\ preview = <<>>
    /\ download = [mime |-> None]

\* app.py:116-125: the text area; blank text gives no output
DirectTextInput ==
    /\ pc = "input"
    /\ input_mode = "Direct text input"
    /\ IF Strip(text_area) # <<>>
       THEN \E r \in process_single_text(text_area) :
              IF r.raised = None
              THEN /\ outputs' = Append(outputs,
                                        [name |-> InputTextName,
                                         xml |-> r.value[1],
                                         count |-> r.value[2]])
                   /\ pc' = "output"
              ELSE /\ outputs' = outputs
                   /\ pc' = "aborted"
       ELSE /\ outputs' = outputs
            /\ pc' = "output"
    /\ UNCHANGED <<fnvars, input_mode, text_area, uploaded_files, fidx,
                   notices, preview, download>>

\* app.py:135-142: one iteration of the loop over the uploaded files; an
\* exception raised in it ends the run
UploadedFile ==
    /\ pc = "input"
    /\ input_mode = "Upload file(s)"
    /\ fidx <= Len(uploaded_files)
    /\ LET f == uploaded_files[fidx]
       IN  \E result \in AppDetectResults :
             LET d == detect_and_decode(f.bytes, result)
             IN  IF d.raised # None
                 THEN /\ pc' = "aborted"
                      /\ UNCHANGED <<fidx, outputs, notices>>
                 ELSE
                 \E r \in process_single_text(d.value[1]) :
                   /\ notices' = Append(notices, <<f.name, d.value[2]>>)
                   /\ IF r.raised = None
                      THEN /\ outputs' = Append(outputs,
                                                [name |-> xml_name(f.name),
                                                 xml |-> r.value[1],
                                                 count |-> r.value[2]])
                           /\ fidx' = fidx + 1
                           /\ pc' = pc
                      ELSE /\ outputs' = outputs
                           /\ fidx' = fidx
                           /\ pc' = "aborted"
    /\ UNCHANGED <<fnvars, input_mode, text_area, uploaded_files, preview,
                   download>>

\* app.py:134-135: no file, or no file left
UploadsDone ==
    /\ pc = "input"
    /\ input_mode = "Upload file(s)"
    /\ fidx > Len(uploaded_files)
    /\ pc' = "output"
    /\ UNCHANGED <<fnvars, appvars>>

\* app.py:148: nothing to offer
NoOutput ==
    /\ pc = "output"
    /\ outputs = <<>>
    /\ pc' = "done"
    /\ UNCHANGED <<fnvars, appvars>>

\* app.py:148-164: the preview of the first document, and the single
\* document offered as it is
DownloadXml ==
    /\ pc = "output"
    /\ Len(outputs) = 1
    /\ preview' = limited_preview(outputs[1].xml, 5, 5, 5)
    /\ download' = [mime |-> "application/xml",
                    file_name |-> outputs[1].name,
                    data |-> encode_utf8(outputs[1].xml).value]
    /\ pc' = "done"
    /\ UNCHANGED <<fnvars, input_mode, text_area, uploaded_files, fidx,
                   outputs, notices>>

\* app.py:148-154, 167-180: the preview of the first document, and the
\* archive with one entry written per output (ZipFile.writestr appends an
\* entry whatever its name)
DownloadZip ==
    /\ pc = "output"
    /\ Len(outputs) > 1
    /\ preview' = limited_preview(outputs[1].xml, 5, 5, 5)
    /\ download' = [mime |-> "application/zip",
                    \* xmlizer_output.zip
                    file_name |-> <<120, 109, 108, 105, 122, 101, 114, 95,
                                    111, 117, 116, 112, 117, 116, 46, 122,
                                    105, 112>>,
                    data |-> [k \in 1..Len(outputs) |->
                                [name |-> outputs[k].name,
                                 data |-> encode_utf8(outputs[k].xml).value]]]
    /\ pc' = "done"
    /\ UNCHANGED <<fnvars, input_mode, text_area, uploaded_files, fidx,
                   outputs, notices>>

Next ==
    \/ DirectTextInput
    \/ UploadedFile
    \/ UploadsDone
    \/ NoOutput
    \/ DownloadXml
    \/ DownloadZip

Spec == Init /\ [][Next]_vars

(***************************************************************************)
(* Properties                                                              *)
(***************************************************************************)

\* ---- C7

\* the code points the sanitizer is to remove
IsIllegalCodePoint(c) ==
    \/ (0 <= c /\ c <= 8)
    \/ c = 11
    \/ c = 12
    \/ (14 <= c /\ c <= 31)
    \/ (55296 <= c /\ c <= 57343)
    \/ c = 65534
    \/ c = 65535

\* C7: the output of clean_illegal_xml_chars holds no code point in
\* 0x00-0x08, 0x0B, 0x0C, 0x0E-0x1F, 0xD800-0xDFFF, 0xFFFE, 0xFFFF, and
\* applying clean_illegal_xml_chars to it returns it unchanged.
C7_SanitizeIdempotent ==
    /\ pc \in {"again", "done"} =>
         \A k \in 1..Len(ret[1]) : ~IsIllegalCodePoint(ret[1][k])
    /\ pc = "done" => ret[2] = ret[1]

\* a text that lost some characters and kept others went through twice
C7_Witness ==
    /\ pc = "done"
    /\ ret[1] # <<>>
    /\ Len(ret[1]) < Len(arg)

\* ---- C5

\* the entity reference of a reserved character, the character otherwise
EntityOf(c) ==
    CASE c = 38 -> <<38, 97, 109, 112, 59>>
      [] c = 60 -> <<38, 108, 116, 59>>
      [] c = 62 -> <<38, 103, 116, 59>>
      [] c = 34 -> <<38, 113, 117, 111, 116, 59>>
      [] c = 39 -> <<38, 97, 112, 111, 115, 59>>
      [] OTHER -> <<c>>

\* C5: escape_xml_entities(x) is x with each of & < > " ' replaced, once,
\* by its entity reference (no & brought in by a substitution is escaped
\* again); the result holds no raw < > " '; "a & < b" gives
\* "a &amp; &lt; b".
C5_EscapeCharwise ==
    pc = "done" =>
      /\ ret = Flatten([k \in 1..Len(arg) |-> EntityOf(arg[k])])
      /\ \A k \in 1..Len(ret) : ret[k] \notin {60, 62, 34, 39}
      /\ arg = EscapeExample =>
           ret = <<97, 32, 38, 97, 109, 112, 59, 32, 38, 108, 116, 59, 32, 98>>

\* the example of the claim, with an ampersand before another reserved
\* character, was escaped
C5_Witness ==
    /\ pc = "done"
    /\ arg = EscapeExample
    /\ Len(ret) = 14

\* ---- C3 and C4

\* the text with every white-space run between two words replaced by one
\* space and the runs at both ends dropped
NormalizedText(x) ==
    LET keep(i) == IF ~IsSpace(x[i]) THEN x[i]
                   ELSE IF /\ i > 1 /\ ~IsSpace(x[i - 1])
                           /\ \E j \in (i + 1)..Len(x) : ~IsSpace(x[j])
                        THEN 32
                   ELSE -1
    IN  SelectSeq([i \in 1..Len(x) |-> keep(i)], LAMBDA c : c >= 0)

\* C3: sentence_split(x) is the segmentation of the collapsed, trimmed
\* text: joined with single spaces the sentences give that text back (in
\* source order); no sentence is empty or starts or ends with white space;
\* every sentence but the last ends with . ! or ? (a cut only after one),
\* and no sentence holds a . ! or ? followed by white space (a cut at every
\* one); "Hello world. How are you? Fine!" gives the three sentences.
C3_Segmentation ==
    pc = "done" =>
      /\ Join(ret, <<32>>) = NormalizedText(arg)
      /\ \A k \in 1..Len(ret) :
           /\ ret[k] # <<>>
           /\ ~IsSpace(ret[k][1])
           /\ ~IsSpace(ret[k][Len(ret[k])])
           /\ k < Len(ret) => ret[k][Len(ret[k])] \in {46, 33, 63}
           /\ \A i \in 1..(Len(ret[k]) - 1) :
                ~(ret[k][i] \in {46, 33, 63} /\ IsSpace(ret[k][i + 1]))
      /\ arg = SplitExample =>
           ret = << <<72, 101, 108, 108, 111, 32, 119, 111, 114, 108, 100, 46>>,
                    <<72, 111, 119, 32, 97, 114, 101, 32, 121, 111, 117, 63>>,
                    <<70, 105, 110, 101, 33>> >>

\* the example of the claim was cut into three sentences
C3_Witness ==
    /\ pc = "done"
    /\ arg = SplitExample
    /\ Len(ret) = 3

NoTerminal(x) == \A k \in 1..Len(x) : x[k] \notin {46, 33, 63}

\* the text without the white space at its two ends
TrimmedText(x) ==
    LET words == {i \in 1..Len(x) : ~IsSpace(x[i])}
    IN  IF words = {} THEN <<>>
        ELSE SubSeq(x, CHOOSE i \in words : \A j \in words : i <= j,
                       CHOOSE i \in words : \A j \in words : i >= j)

\* C4 as stated: a text without . ! ? gives exactly one sentence, the whole
\* trimmed text; the empty text gives no sentence.
C4_WholeTrimmedText ==
    (pc = "done" /\ NoTerminal(arg)) =>
      IF arg = <<>> THEN ret = <<>> ELSE ret = <<TrimmedText(arg)>>

\* C4, amended: a text without . ! ? that holds a character other than
\* white space gives exactly one sentence, the trimmed text with every
\* white-space run collapsed to one space; an empty or blank text gives no
\* sentence.
C4_OneCollapsedSentence ==
    (pc = "done" /\ NoTerminal(arg)) =>
      IF \E k \in 1..Len(arg) : ~IsSpace(arg[k])
      THEN ret = <<NormalizedText(arg)>>
      ELSE ret = <<>>

\* a text without terminal punctuation and with a line feed between two
\* words gave one sentence
C4_Witness ==
    /\ pc = "done"
    /\ NoTerminal(arg)
    /\ \E i \in 2..(Len(arg) - 1) :
         arg[i] = 10 /\ ~IsSpace(arg[i - 1]) /\ ~IsSpace(arg[i + 1])
    /\ Len(ret) = 1

\* ---- C10

\* the lines the preview is to show: the first head lines, the marker, mid
\* lines from the clamped middle, the marker, the last tail lines
PreviewLines(lines, head, mid, tail) ==
    LET total == Len(lines)
        start == Max((total \div 2) - (mid \div 2), head)
    IN  SubSeq(lines, 1, head)
        \o << <<46, 46, 46>> >>
        \o SubSeq(lines, start + 1, start + mid)
        \o << <<46, 46, 46>> >>
        \o SubSeq(lines, total - tail + 1, total)

\* C10: limited_preview returns the text unchanged when it has at most
\* head + mid + tail lines, and otherwise exactly head + 1 + mid + 1 + tail
\* lines: the first head lines, "...", mid lines from the clamped middle,
\* "...", and the last tail lines.
C10_PreviewShape ==
    pc = "done" =>
      LET lines == splitlines(arg.xml_text)
          shown == PreviewLines(lines, arg.head, arg.mid, arg.tail)
      IN  IF Len(lines) <= arg.head + arg.mid + arg.tail
          THEN ret = arg.xml_text
          ELSE /\ Len(shown) = arg.head + 1 + arg.mid + 1 + arg.tail
               /\ ret = Join(shown, <<10>>)

\* ---- C8

\* C8: detect_and_decode returns a (text, label) pair and never raises,
\* whatever chardet.detect returned; when the label is None or unknown to
\* Python, so that decoding under it raises, the text is the UTF-8 decoding
\* with substitution and the label is "utf-8".
C8_DecodeTotal ==
    pc = "done" =>
      /\ ret.raised = None
      /\ Len(ret.value) = 2
      /\ ret.value[2] \in KnownCodecs
      /\ (arg.result \in {[encoding |-> None], [encoding |-> "EUC-TW"]}) =>
           ret.value = <<decode_utf8(arg.file_bytes), "utf-8">>

\* no label was detected for the UTF-8 bytes of e-acute followed by a
\* stray Latin-1 byte, and the fallback decoded them
C8_Witness ==
    /\ pc = "done"
    /\ arg.result = [encoding |-> None]
    /\ arg.file_bytes = <<195, 169, 233>>
    /\ ret.value = << <<233, 65533>>, "utf-8">>

\* ---- C1

\* C1: validate_and_repair_xml hands back a result (the repaired text, or a
\* failure indicator with a diagnostic) and lets no exception out, also
\* when the recovering parser has no tree.
C1_TaggedFailure ==
    pc = "done" => ret.raised = None

\* ---- C2

SentencesOf(text) == sentence_split(clean_illegal_xml_chars(text))

\* the document with one s element per sentence, numbered from 1, each
\* holding its sentence as content(sentence) between two line feeds
NumberedDocument(sentences, content(_)) ==
    \* <?xml version='1.0' encoding='utf-8'?>\n<document>\n
    <<60, 63, 120, 109, 108, 32, 118, 101, 114, 115, 105, 111, 110, 61, 39,
      49, 46, 48, 39, 32, 101, 110, 99, 111, 100, 105, 110, 103, 61, 39, 117,
      116, 102, 45, 56, 39, 63, 62, 10,
      60, 100, 111, 99, 117, 109, 101, 110, 116, 62, 10>>
    \o Join([k \in 1..Len(sentences) |->
               <<60, 115, 32, 110, 61, 34>> \o Digits(k) \o <<34, 62, 10>>
               \o content(sentences[k]) \o <<10, 60, 47, 115, 62>>],
            <<10>>)
    \* \n</document>
    \o <<10, 60, 47, 100, 111, 99, 117, 109, 101, 110, 116, 62>>

\* the sentence with & < > as entity references and quotes as they are
MarkupEscaped(sentence) ==
    Flatten([k \in 1..Len(sentence) |->
               IF sentence[k] \in {38, 60, 62} THEN EntityOf(sentence[k])
               ELSE <<sentence[k]>>])

\* the document is a root "document" whose children are the N elements
\* s with n = 1..N, the k-th holding the k-th sentence
HoldsSentences(xml, sentences) ==
    LET p == ParseDocument(xml)
    IN  /\ p.ok
        /\ p.tree.tag = <<100, 111, 99, 117, 109, 101, 110, 116>>
        /\ Len(p.tree.children) = Len(sentences)
        /\ \A k \in 1..Len(sentences) :
             /\ p.tree.children[k].tag = <<115>>
             /\ p.tree.children[k].attrib = << <<(<<110>>), Digits(k)>> >>
             /\ p.tree.children[k].children = <<>>
             /\ p.tree.children[k].text = <<10>> \o sentences[k] \o <<10>>

\* C6 as stated: process_single_text returns the sentence count N and the
\* document, after the XML declaration, of N elements s numbered 1..N in
\* order, the k-th holding escape_xml_entities of the k-th sentence.
C6_HoldsEscapedSentences ==
    pc = "done" =>
      /\ ret.raised = None
      /\ ret.value[2] = Len(SentencesOf(arg))
      /\ ret.value[1] = NumberedDocument(SentencesOf(arg), escape_xml_entities)

\* C6, amended: process_single_text returns the sentence count N and the
\* document, after the XML declaration, of N elements s numbered 1..N in
\* order, the k-th holding the k-th sentence with & < > as entity
\* references and the quote characters as they are.
C6_HoldsSentences ==
    pc = "done" =>
      /\ ret.raised = None
      /\ ret.value[2] = Len(SentencesOf(arg))
      /\ ret.value[1] = NumberedDocument(SentencesOf(arg), MarkupEscaped)
      /\ HoldsSentences(ret.value[1], SentencesOf(arg))

\* a text of two sentences, with an ampersand and a quote, was processed
C6_Witness ==
    /\ pc = "done"
    /\ ret.value[2] = 2
    /\ Contains(arg, 38)
    /\ Contains(arg, 34)

\* ---- C9

\* the output name of each uploaded name: report.txt -> report.xml,
\* a.md -> a.xml, a.txt -> a.xml, notes -> notes.xml
OutputNameOf(name) ==
    CASE name = <<114, 101, 112, 111, 114, 116, 46, 116, 120, 116>>
           -> <<114, 101, 112, 111, 114, 116, 46, 120, 109, 108>>
      [] name = <<97, 46, 109, 100>> -> <<97, 46, 120, 109, 108>>
      [] name = <<97, 46, 116, 120, 116>> -> <<97, 46, 120, 109, 108>>
      [] name = <<110, 111, 116, 101, 115>>
           -> <<110, 111, 116, 101, 115, 46, 120, 109, 108>>

\* the k-th output is the XML of the k-th document under some detection
IsOutputOf(output, file) ==
    \E result \in AppDetectResults :
      \E r \in process_single_text(detect_and_decode(file.bytes, result).value[1]) :
        output.xml = r.value[1] /\ output.count = r.value[2]

=============================================================================
